---- MODULE Spec2Model ----
(***************************************************************************)
(* A model of gh-po (src/main.go): list the open pull requests, lay them   *)
(* out in four display-width-aware columns, let the user pick one, then    *)
(* check it out and/or open it in the browser.                             *)
(*                                                                         *)
(* Text is a sequence of one-character strings, so that width, truncation  *)
(* and padding are computed rune by rune as go-runewidth does.  The runes  *)
(* in WideRunes occupy two terminal cells, every other rune one.           *)
(***************************************************************************)
EXTENDS Integers, Sequences, FiniteSets

(* ------------------------------ bounds --------------------------------- *)

\* The longest listing the collaborator returns.
MaxPRs == 2
\* How many seconds the wall clock may advance during one run.
MaxTicks == 1

(* ------------------------- text and display width ---------------------- *)

\* Runes classified East Asian Wide by go-runewidth (two cells each).
WideRunes == {"U+65E5", "U+672C"}

\* The ellipsis rune (U+2026): one cell under go-runewidth's default condition.
Ellipsis == "U+2026"

Min(a, b) == IF a < b THEN a ELSE b

\* n copies of the rune c (none when n <= 0).
Rep(c, n) == [k \in 1..n |-> c]

RuneWidth(c) == IF c \in WideRunes THEN 2 ELSE 1

\* The cells of the runes s[lo..hi], summed by halves (rune widths add up
\* the same in any order; halving keeps the evaluation shallow).
RECURSIVE WidthBetween(_, _, _)
WidthBetween(s, lo, hi) ==
    IF lo > hi THEN 0
    ELSE IF lo = hi THEN RuneWidth(s[lo])
    ELSE LET mid == (lo + hi) \div 2
         IN WidthBetween(s, lo, mid) + WidthBetween(s, mid + 1, hi)

\* runewidth.StringWidth(s): the sum of the widths of the runes of s.
StringWidth(s) == WidthBetween(s, 1, Len(s))

\* runewidth.Truncate's loop walks s adding rune widths and stops before the
\* first rune that would take the running width past w.  Every rune has a
\* positive width, so it stops after the longest prefix of width <= w; that
\* prefix ends in lo..hi and is found here by bisection.
RECURSIVE TruncatePos(_, _, _, _)
TruncatePos(s, w, lo, hi) ==
    IF lo >= hi THEN lo
    ELSE LET mid == (lo + hi + 1) \div 2
         IN IF WidthBetween(s, 1, mid) <= w
              THEN TruncatePos(s, w, mid, hi)
              ELSE TruncatePos(s, w, lo, mid - 1)

\* runewidth.Truncate(s, w, tail): s when it fits in w cells, else a prefix
\* of at most w - width(tail) cells followed by tail.
Truncate(s, w, tail) ==
    IF StringWidth(s) <= w THEN s
    ELSE SubSeq(s, 1, TruncatePos(s, w - StringWidth(tail), 0, Len(s))) \o tail

\* runewidth.FillRight(s, w): s followed by w - width(s) spaces, if any.
FillRight(s, w) == s \o Rep(" ", w - StringWidth(s))

Digit(d) ==
    CASE d = 0 -> "0" [] d = 1 -> "1" [] d = 2 -> "2" [] d = 3 -> "3"
      [] d = 4 -> "4" [] d = 5 -> "5" [] d = 6 -> "6" [] d = 7 -> "7"
      [] d = 8 -> "8" [] d = 9 -> "9"

\* strconv.Itoa / the %d verb, for a non-negative integer.
RECURSIVE Itoa(_)
Itoa(n) == IF n < 10 THEN <<Digit(n)>> ELSE Itoa(n \div 10) \o <<Digit(n % 10)>>

\* fmt.Sprintf("#%d", pr.Number)
IDString(n) == <<"#">> \o Itoa(n)

(* ---------------------- humanize.Time (relative time) ------------------ *)

\* Durations in seconds, as go-humanize defines them.
Minute == 60

Hour == 60 * Minute

Day == 24 * Hour

Week == 7 * Day

Month == 30 * Day

Year == 12 * Month

LongTime == 37 * Year

AboutPrefix == <<"a", "b", "o", "u", "t", " ">>

AgoLabel == <<"a", "g", "o">>

FromNowLabel == <<"f", "r", "o", "m", " ", "n", "o", "w">>

\* One row of humanize's magnitude table with a %d verb: "<n> <unit>s <lbl>".
Plural(n, unit, lbl) == Itoa(n) \o <<" ">> \o unit \o <<"s", " ">> \o lbl

\* One row of the table without a %d verb: "1 <unit> <lbl>".
Single(unit, lbl) == <<"1", " ">> \o unit \o <<" ">> \o lbl

\* humanize.RelTime(then, now, "ago", "from now") at one-second resolution:
\* the first magnitude whose bound exceeds the difference formats it.
RelTime(then, now) ==
    LET lbl == IF then > now THEN FromNowLabel ELSE AgoLabel
        diff == IF then > now THEN then - now ELSE now - then
    IN CASE diff < 1 -> <<"n", "o", "w">>
         [] diff >= 1 /\ diff < 2 -> Single(<<"s", "e", "c", "o", "n", "d">>, lbl)
         [] diff >= 2 /\ diff < Minute -> Plural(diff, <<"s", "e", "c", "o", "n", "d">>, lbl)
         [] diff >= Minute /\ diff < 2 * Minute -> Single(<<"m", "i", "n", "u", "t", "e">>, lbl)
         [] diff >= 2 * Minute /\ diff < Hour ->
                Plural(diff \div Minute, <<"m", "i", "n", "u", "t", "e">>, lbl)
         [] diff >= Hour /\ diff < 2 * Hour -> Single(<<"h", "o", "u", "r">>, lbl)
         [] diff >= 2 * Hour /\ diff < Day -> Plural(diff \div Hour, <<"h", "o", "u", "r">>, lbl)
         [] diff >= Day /\ diff < 2 * Day -> Single(<<"d", "a", "y">>, lbl)
         [] diff >= 2 * Day /\ diff < Week -> Plural(diff \div Day, <<"d", "a", "y">>, lbl)
         [] diff >= Week /\ diff < 2 * Week -> Single(<<"w", "e", "e", "k">>, lbl)
         [] diff >= 2 * Week /\ diff < Month ->
                Plural(diff \div Week, <<"w", "e", "e", "k">>, lbl)
         [] diff >= Month /\ diff < 2 * Month -> Single(<<"m", "o", "n", "t", "h">>, lbl)
         [] diff >= 2 * Month /\ diff < Year ->
                Plural(diff \div Month, <<"m", "o", "n", "t", "h">>, lbl)
         [] diff >= Year /\ diff < 18 * Month -> Single(<<"y", "e", "a", "r">>, lbl)
         [] diff >= 18 * Month /\ diff < 2 * Year ->
                <<"2", " ">> \o <<"y", "e", "a", "r">> \o <<"s", " ">> \o lbl
         [] diff >= 2 * Year /\ diff < LongTime ->
                Plural(diff \div Year, <<"y", "e", "a", "r">>, lbl)
         [] OTHER -> <<"a", " ", "l", "o", "n", "g", " ", "w", "h", "i", "l", "e", " ">> \o lbl

\* "about " + humanize.Time(pr.CreatedAt), with the clock reading `now`.
CreatedString(createdAt, now) == AboutPrefix \o RelTime(createdAt, now)

(* ------------------------- column layout (selectPR) -------------------- *)

\* The floors and ceilings of the four columns.
IDFloor == 2

TitleFloor == 5

BranchFloor == 6

CreatedFloor == 10

TitleCeiling == 100

BranchCeiling == 30

\* lipgloss Style.Render: the text carrying its style; styling adds no cells.
Render(style, text) == [style |-> style, text |-> text]

\* An unstyled piece of a Sprintf result.
Plain(text) == [style |-> "none", text |-> text]

Gutter == Plain(<<" ", " ">>)

\* The widths selectPR starts its pass from.
InitWidths ==
    [id |-> IDFloor, title |-> TitleFloor, branch |-> BranchFloor,
     created |-> CreatedFloor]

\* One iteration of selectPR's width loop over record pr, the clock reading t.
WidthStep(w, pr, t) ==
    LET idWidth == StringWidth(IDString(pr.Number))
        titleWidth == StringWidth(pr.Title)
        branchWidth == StringWidth(pr.HeadRefName)
        createdWidth == StringWidth(CreatedString(pr.CreatedAt, t))
    IN [id |-> IF idWidth > w.id THEN idWidth ELSE w.id,
        title |-> IF titleWidth > w.title THEN titleWidth ELSE w.title,
        branch |-> IF branchWidth > w.branch THEN branchWidth ELSE w.branch,
        created |-> IF createdWidth > w.created THEN createdWidth ELSE w.created]

\* LimitWidths with the clamp of the title column forgotten.
LimitWidths_NoTitleClamp(w) ==
    [w EXCEPT !.branch = IF @ > BranchCeiling THEN BranchCeiling ELSE @]

\* "Limit maximum widths": title and branch are clamped, id and created not.
LimitWidths(w) ==
    [w EXCEPT !.title = IF @ > TitleCeiling THEN TitleCeiling ELSE @,
              !.branch = IF @ > BranchCeiling THEN BranchCeiling ELSE @]

\* The whole width pass over a list with the clock standing at t.
RECURSIVE WidthLoop(_, _, _)
WidthLoop(w, list, t) ==
    IF list = <<>> THEN w ELSE WidthLoop(WidthStep(w, Head(list), t), Tail(list), t)

ColumnWidths(list, t) == LimitWidths(WidthLoop(InitWidths, list, t))

\* The text of a title or branch cell: truncated when too wide, then padded.
TruncateAndPad(text, width) ==
    FillRight(IF StringWidth(text) > width
                 THEN Truncate(text, width - 1, <<Ellipsis>>)
                 ELSE text,
              width)

\* formatPR: the row label of pr, the clock reading t when it is formatted.
formatPR(pr, idWidth, titleWidth, branchWidth, createdWidth, t) ==
    LET paddedID == FillRight(IDString(pr.Number), idWidth)
        styledID == IF pr.IsDraft THEN Render("yellow", paddedID)
                                  ELSE Render("green", paddedID)
        paddedTitle == TruncateAndPad(pr.Title, titleWidth)
        styledBranch == Render("cyan", TruncateAndPad(pr.HeadRefName, branchWidth))
        paddedCreated == FillRight(CreatedString(pr.CreatedAt, t), createdWidth)
    IN <<styledID, Gutter, Plain(paddedTitle), Gutter, styledBranch, Gutter,
         Render("gray", paddedCreated)>>

\* buildHeader: two leading spaces, then the four underlined padded labels.
buildHeader(idWidth, titleWidth, branchWidth, createdWidth) ==
    <<Gutter,
      Render("underline", FillRight(<<"I", "D">>, idWidth)), Gutter,
      Render("underline", FillRight(<<"T", "I", "T", "L", "E">>, titleWidth)), Gutter,
      Render("underline", FillRight(<<"B", "R", "A", "N", "C", "H">>, branchWidth)), Gutter,
      Render("underline", FillRight(<<"C", "R", "E", "A", "T", "E", "D", " ", "A", "T">>, createdWidth))>>

\* styleID: the unpadded identifier, yellow for a draft and green otherwise.
styleID(pr) ==
    IF pr.IsDraft THEN Render("yellow", IDString(pr.Number))
                  ELSE Render("green", IDString(pr.Number))

\* The terminal cells a rendered line occupies.
RECURSIVE LineWidth(_)
LineWidth(line) ==
    IF line = <<>> THEN 0 ELSE StringWidth(Head(line).text) + LineWidth(Tail(line))

(* ------------------------------- inputs -------------------------------- *)

\* Timestamps are seconds relative to the start of the run (negative: before).
PRSet ==
    { [Number |-> 42, Title |-> <<"F", "i", "x", " ", "b", "u", "g">>, HeadRefName |-> <<"f", "i", "x", "/", "b", "u", "g">>,
       IsDraft |-> FALSE, CreatedAt |-> 0 - 2 * Hour],
      [Number |-> 7, Title |-> Rep("a", 150), HeadRefName |-> Rep("b", 31),
       IsDraft |-> TRUE, CreatedAt |-> 0 - 9],
      [Number |-> 12345, Title |-> <<"U+65E5", "x">>,
       HeadRefName |-> <<"m", "a", "i", "n">>, IsDraft |-> FALSE, CreatedAt |-> 0],
      [Number |-> 8, Title |-> <<"a">> \o Rep("U+65E5", 75),
       HeadRefName |-> Rep("b", 30), IsDraft |-> TRUE,
       CreatedAt |-> 0 - (10 * Minute - 1)],
      [Number |-> 100, Title |-> Rep("a", 100),
       HeadRefName |-> <<"x">> \o Rep("U+672C", 15), IsDraft |-> FALSE,
       CreatedAt |-> 0 - (Minute - 1)] }

PRLists == UNION { [1..n -> PRSet] : n \in 0..MaxPRs }

\* PullRequest{}: the zero value.
ZeroPR ==
    [Number |-> 0, Title |-> <<>>, HeadRefName |-> <<>>, IsDraft |-> FALSE,
     CreatedAt |-> 0]

\* A nil error; an error is the non-empty sequence of its message's parts.
NoErr == <<>>

ExecErr == <<"exit status 1">>

\* What `gh pr list --json ...` can answer: a failure with or without
\* diagnostics, or success with a JSON array, `null`, or text that is no JSON.
ListAnswers ==
    { [ok |-> FALSE, doc |-> [kind |-> "none", items |-> <<>>], stderr |-> e] :
        e \in {<<>>, <<"no git remotes found\n">>} }
    \cup { [ok |-> TRUE, doc |-> [kind |-> "array", items |-> l], stderr |-> <<>>] :
             l \in PRLists }
    \cup { [ok |-> TRUE, doc |-> [kind |-> k, items |-> <<>>], stderr |-> <<>>] :
             k \in {"null", "malformed"} }

\* What `gh repo view --json nameWithOwner -q .nameWithOwner` can answer.
RepoAnswers ==
    { [ok |-> FALSE, stdout |-> <<>>],
      [ok |-> TRUE, stdout |-> <<"o", "/", "r", "\n">>] }

\* What `gh pr checkout <n>` and `gh browse <n>` can answer.
ExecAnswers ==
    { [ok |-> TRUE, stdout |-> <<>>, stderr |-> <<"Switched to branch\n">>],
      [ok |-> FALSE, stdout |-> <<>>, stderr |-> <<"could not check out\n">>] }

BrowseAnswers ==
    { [ok |-> TRUE, stderr |-> <<>>],
      [ok |-> FALSE, stderr |-> <<"could not open browser\n">>] }

(* ----------------------------- collaborators --------------------------- *)

\* json.Unmarshal into []PullRequest: `null` decodes to a nil slice.
Unmarshal(doc) ==
    [err |-> IF doc.kind = "malformed" THEN <<"invalid character">> ELSE NoErr,
     prs |-> IF doc.kind = "array" THEN doc.items ELSE <<>>]

\* listPRs: (prs, stderr, err) from the collaborator's answer.
listPRs(answer) ==
    IF ~answer.ok
      THEN [prs |-> <<>>, stderr |-> answer.stderr, err |-> ExecErr]
      ELSE LET u == Unmarshal(answer.doc)
           IN IF u.err # NoErr
                THEN [prs |-> <<>>, stderr |-> <<>>,
                      err |-> <<"failed to parse PR list: ">> \o u.err]
                ELSE [prs |-> u.prs, stderr |-> <<>>, err |-> NoErr]

IsSpace(c) == c \in {" ", "\n", "\t", "\r"}

RECURSIVE TrimLeft(_)
TrimLeft(s) == IF s # <<>> /\ IsSpace(Head(s)) THEN TrimLeft(Tail(s)) ELSE s

RECURSIVE TrimRight(_)
TrimRight(s) ==
    IF s # <<>> /\ IsSpace(s[Len(s)]) THEN TrimRight(SubSeq(s, 1, Len(s) - 1)) ELSE s

\* strings.TrimSpace
TrimSpace(s) == TrimRight(TrimLeft(s))

\* getRepoName without the TrimSpace.
getRepoName_NoTrim(answer) == IF ~answer.ok THEN <<>> ELSE answer.stdout

\* getRepoName: the trimmed answer, or "" when the call failed.
getRepoName(answer) == IF ~answer.ok THEN <<>> ELSE TrimSpace(answer.stdout)

\* One collaborator invocation: its arguments, the PR number it carries and
\* whether it ended in success.
Call(args, number, ok) == [args |-> args, number |-> number, ok |-> ok]

\* A write of text to a stream; writing the empty string writes nothing.
Write(log, text) == IF text = <<>> THEN log ELSE Append(log, text)

\* fmt.Fprintf(os.Stderr, "Error: %v\n", err)
ErrorLine(err) == <<"Error: ">> \o err \o <<"\n">>

\* ViewOnly with --web taking precedence over --view.
ViewOnly_UnlessWeb(fl) == fl.view /\ ~fl.web

\* The branch main takes on the two flags: --view opens the browser only.
ViewOnly(fl) == fl.view

\* --web: open the browser after a checkout.
WebAfterCheckout(fl) == fl.web

\* main's test for the empty listing.
NoOpenPRs(list) == Len(list) = 0

\* formRun returning the zero record without an error when the user aborts.
formRun_FallbackOnCancel(opts, choice) ==
    IF choice = 0
      THEN [selected |-> ZeroPR, err |-> NoErr]
      ELSE [selected |-> opts[choice].value, err |-> NoErr]

\* formRun yielding the first option whichever one the user accepted.
formRun_FirstOption(opts, choice) ==
    IF choice = 0
      THEN [selected |-> ZeroPR,
            err |-> <<"selection cancelled: ">> \o <<"user aborted">>]
      ELSE [selected |-> opts[1].value, err |-> NoErr]

\* form.Run() and selectPR's return: choice 0 is the user aborting the menu,
\* choice k the user accepting the k-th option.
formRun(opts, choice) ==
    IF choice = 0
      THEN [selected |-> ZeroPR,
            err |-> <<"selection cancelled: ">> \o <<"user aborted">>]
      ELSE [selected |-> opts[choice].value, err |-> NoErr]

\* checkoutPR's first write: "%s  %s  %s\n\n" of the styled id, the title
\* and the styled branch (the text written; colours add no characters).
SummaryLine(pr) ==
    styleID(pr).text \o Gutter.text \o pr.Title \o Gutter.text
      \o Render("cyan", pr.HeadRefName).text \o <<"\n", "\n">>

\* checkoutPR dropping the collaborator's error.
checkoutPR_IgnoresFailure(pr, answer) ==
    [call |-> Call(<<"pr", "checkout">>, Itoa(pr.Number), answer.ok),
     out |-> Write(Write(<<SummaryLine(pr)>>, answer.stdout), answer.stderr),
     err |-> NoErr]

\* checkoutPR: the summary line, the collaborator call, its relayed output
\* (both streams go to standard output) and the wrapped error, if any.
checkoutPR(pr, answer) ==
    [call |-> Call(<<"pr", "checkout">>, Itoa(pr.Number), answer.ok),
     out |-> Write(Write(<<SummaryLine(pr)>>, answer.stdout), answer.stderr),
     err |-> IF ~answer.ok
               THEN <<"failed to checkout PR #">> \o Itoa(pr.Number)
                      \o <<": ">> \o ExecErr
               ELSE NoErr]

\* browsePR dropping the collaborator's error.
browsePR_IgnoresFailure(pr, withNewline, answer) ==
    [call |-> Call(<<"browse">>, Itoa(pr.Number), answer.ok),
     out |-> IF withNewline THEN <<<<"\n">>>> ELSE <<>>,
     relayed |-> answer.stderr,
     err |-> NoErr]

\* browsePR: an optional blank line, the collaborator call (which writes to
\* the terminal itself) and the wrapped error, if any.
browsePR(pr, withNewline, answer) ==
    [call |-> Call(<<"browse">>, Itoa(pr.Number), answer.ok),
     out |-> IF withNewline THEN <<<<"\n">>>> ELSE <<>>,
     relayed |-> answer.stderr,
     err |-> IF ~answer.ok
               THEN <<"failed to open PR #">> \o Itoa(pr.Number)
                      \o <<" in browser: ">> \o ExecErr
               ELSE NoErr]

(* -------------------------------- state -------------------------------- *)

VARIABLES
    pc,          \* where main stands
    f,           \* the parsed flags
    now,         \* the wall clock, in seconds since the run started
    listAnswer,  \* what the listing collaborator answered
    prs,         \* main's prs
    stderrStr,   \* main's stderr
    listErr,     \* main's listErr
    widths,      \* selectPR's four running maxima
    i,           \* the index of selectPR's current loop
    options,     \* selectPR's options: label and value
    header,      \* selectPR's header
    selected,    \* main's selected
    selErr,      \* the error selectPR returned
    userChoice,  \* what the user did in the menu (-1: nothing yet, 0: abort)
    calls,       \* the collaborator invocations made so far, in order
    stdoutLog,   \* what was written to standard output
    stderrLog,   \* what was written to standard error
    exitCode     \* the exit status once pc = "done" (-1 while running)

vars ==
    <<pc, f, now, listAnswer, prs, stderrStr, listErr, widths, i, options,
      header, selected, selErr, userChoice, calls, stdoutLog, stderrLog,
      exitCode>>

layoutVars == <<widths, i, options, header>>

Flags == [web : BOOLEAN, view : BOOLEAN]

\* parseFlags has run; nothing else has.
Init ==
    /\ pc = "list"
    /\ f \in Flags
    /\ now = 0
    /\ listAnswer = [ok |-> FALSE, doc |-> [kind |-> "none", items |-> <<>>],
                     stderr |-> <<>>]
    /\ prs = <<>>
    /\ stderrStr = <<>>
    /\ listErr = NoErr
    /\ widths = InitWidths
    /\ i = 1
    /\ options = <<>>
    /\ header = <<>>
    /\ selected = ZeroPR
    /\ selErr = NoErr
    /\ userChoice = -1
    /\ calls = <<>>
    /\ stdoutLog = <<>>
    /\ stderrLog = <<>>
    /\ exitCode = -1

\* os.Exit(code), or main returning (code 0).
Exit(code) == pc' = "done" /\ exitCode' = code

\* The clock advances while the program runs.
Tick ==
    /\ pc # "done"
    /\ now < MaxTicks
    /\ now' = now + 1
    /\ UNCHANGED <<pc, f, listAnswer, prs, stderrStr, listErr, widths, i, options,
                   header, selected, selErr, userChoice, calls, stdoutLog, stderrLog, exitCode>>

\* main: the spinner runs listPRs.
ListStep ==
    /\ pc = "list"
    /\ \E a \in ListAnswers :
         LET r == listPRs(a)
         IN /\ listAnswer' = a
            /\ prs' = r.prs
            /\ stderrStr' = r.stderr
            /\ listErr' = r.err
            /\ calls' = Append(calls, Call(<<"pr", "list">>, <<>>, a.ok))
    /\ pc' = "listed"
    /\ UNCHANGED <<f, now, layoutVars, selected, selErr, userChoice, stdoutLog, stderrLog,
                   exitCode>>

\* main: listErr != nil.
ListFailed ==
    /\ pc = "listed"
    /\ listErr # NoErr
    /\ stderrLog' = Write(stderrLog, stderrStr)
    /\ Exit(1)
    /\ UNCHANGED <<f, now, listAnswer, prs, stderrStr, listErr, layoutVars,
                   selected, selErr, userChoice, calls, stdoutLog>>

\* main: len(prs) == 0.
NoPullRequests ==
    /\ pc = "listed"
    /\ listErr = NoErr
    /\ NoOpenPRs(prs)
    /\ \E a \in RepoAnswers :
         LET repo == getRepoName(a)
         IN /\ stdoutLog' =
              Write(stdoutLog,
                    IF repo # <<>>
                      THEN <<"no open pull requests in ">> \o repo \o <<"\n">>
                      ELSE <<"no open pull requests", "\n">>)
            /\ calls' = Append(calls, Call(<<"repo", "view">>, <<>>, a.ok))
    /\ Exit(0)
    /\ UNCHANGED <<f, now, listAnswer, prs, stderrStr, listErr, layoutVars,
                   selected, selErr, userChoice, stderrLog>>

\* main calls selectPR, which sets its maxima to the floors.
EnterSelect ==
    /\ pc = "listed"
    /\ listErr = NoErr
    /\ ~NoOpenPRs(prs)
    /\ widths' = InitWidths
    /\ i' = 1
    /\ pc' = "widths"
    /\ UNCHANGED <<f, now, listAnswer, prs, stderrStr, listErr, options, header,
                   selected, selErr, userChoice, calls, stdoutLog, stderrLog, exitCode>>

\* selectPR: one iteration of the width loop.
WidthPass ==
    /\ pc = "widths"
    /\ i <= Len(prs)
    /\ widths' = WidthStep(widths, prs[i], now)
    /\ i' = i + 1
    /\ UNCHANGED <<pc, f, now, listAnswer, prs, stderrStr, listErr, options,
                   header, selected, selErr, userChoice, calls, stdoutLog, stderrLog, exitCode>>

\* selectPR: the width loop is over; clamp.
Limit ==
    /\ pc = "widths"
    /\ i > Len(prs)
    /\ widths' = LimitWidths(widths)
    /\ i' = 1
    /\ pc' = "options"
    /\ UNCHANGED <<f, now, listAnswer, prs, stderrStr, listErr, options, header,
                   selected, selErr, userChoice, calls, stdoutLog, stderrLog, exitCode>>

\* selectPR: one iteration of the options loop.
FormatOption ==
    /\ pc = "options"
    /\ i <= Len(prs)
    /\ options' =
         Append(options,
                [label |-> formatPR(prs[i], widths.id, widths.title,
                                    widths.branch, widths.created, now),
                 value |-> prs[i]])
    /\ i' = i + 1
    /\ UNCHANGED <<pc, f, now, listAnswer, prs, stderrStr, listErr, widths,
                   header, selected, selErr, userChoice, calls, stdoutLog, stderrLog, exitCode>>

\* selectPR: the options are built; build the header.
Header ==
    /\ pc = "options"
    /\ i > Len(prs)
    /\ header' = buildHeader(widths.id, widths.title, widths.branch, widths.created)
    /\ pc' = "form"
    /\ UNCHANGED <<f, now, listAnswer, prs, stderrStr, listErr, widths, i,
                   options, selected, selErr, userChoice, calls, stdoutLog, stderrLog, exitCode>>

\* selectPR: the menu runs until the user accepts an option or aborts.
RunForm ==
    /\ pc = "form"
    /\ \E choice \in 0..Len(options) :
         LET r == formRun(options, choice)
         IN selected' = r.selected /\ selErr' = r.err /\ userChoice' = choice
    /\ pc' = "dispatch"
    /\ UNCHANGED <<f, now, listAnswer, prs, stderrStr, listErr, layoutVars,
                   calls, stdoutLog, stderrLog, exitCode>>

\* main: selectPR returned an error.
SelectFailed ==
    /\ pc = "dispatch"
    /\ selErr # NoErr
    /\ stderrLog' = Write(stderrLog, ErrorLine(selErr))
    /\ Exit(1)
    /\ UNCHANGED <<f, now, listAnswer, prs, stderrStr, listErr, layoutVars,
                   selected, selErr, userChoice, calls, stdoutLog>>

\* main: --view, browsePR(selected, false).
ViewStep ==
    /\ pc = "dispatch"
    /\ selErr = NoErr
    /\ ViewOnly(f)
    /\ \E a \in BrowseAnswers :
         LET r == browsePR(selected, FALSE, a)
         IN /\ calls' = Append(calls, r.call)
            /\ stdoutLog' = stdoutLog \o r.out
            /\ stderrLog' =
                 Write(Write(stderrLog, r.relayed),
                       IF r.err # NoErr THEN ErrorLine(r.err) ELSE <<>>)
            /\ Exit(IF r.err # NoErr THEN 1 ELSE 0)
    /\ UNCHANGED <<f, now, listAnswer, prs, stderrStr, listErr, layoutVars,
                   selected, selErr, userChoice>>

\* main: checkoutPR(selected); on success either done or on to --web.
CheckoutStep ==
    /\ pc = "dispatch"
    /\ selErr = NoErr
    /\ ~ViewOnly(f)
    /\ \E a \in ExecAnswers :
         LET r == checkoutPR(selected, a)
         IN /\ calls' = Append(calls, r.call)
            /\ stdoutLog' = stdoutLog \o r.out
            /\ stderrLog' =
                 Write(stderrLog, IF r.err # NoErr THEN ErrorLine(r.err) ELSE <<>>)
            /\ IF r.err # NoErr THEN Exit(1)
               ELSE IF WebAfterCheckout(f) THEN pc' = "web" /\ exitCode' = exitCode
               ELSE Exit(0)
    /\ UNCHANGED <<f, now, listAnswer, prs, stderrStr, listErr, layoutVars,
                   selected, selErr, userChoice>>

\* main: --web, browsePR(selected, true).
WebStep ==
    /\ pc = "web"
    /\ \E a \in BrowseAnswers :
         LET r == browsePR(selected, TRUE, a)
         IN /\ calls' = Append(calls, r.call)
            /\ stdoutLog' = stdoutLog \o r.out
            /\ stderrLog' =
                 Write(Write(stderrLog, r.relayed),
                       IF r.err # NoErr THEN ErrorLine(r.err) ELSE <<>>)
            /\ Exit(IF r.err # NoErr THEN 1 ELSE 0)
    /\ UNCHANGED <<f, now, listAnswer, prs, stderrStr, listErr, layoutVars,
                   selected, selErr, userChoice>>

Next ==
    \/ Tick
    \/ ListStep
    \/ ListFailed
    \/ NoPullRequests
    \/ EnterSelect
    \/ WidthPass
    \/ Limit
    \/ FormatOption
    \/ Header
    \/ RunForm
    \/ SelectFailed
    \/ ViewStep
    \/ CheckoutStep
    \/ WebStep

Spec == Init /\ [][Next]_vars

(* ------------------------------ properties ----------------------------- *)

IsCheckout(c) == c.args = <<"pr", "checkout">>

IsBrowse(c) == c.args = <<"browse">>

IsAction(c) == IsCheckout(c) \/ IsBrowse(c)

\* The checkout and browser-open invocations made so far, in order.
ActionCalls == SelectSeq(calls, IsAction)

Done == pc = "done"

\* The listing answered with a non-empty array.
ListedSome ==
    /\ listAnswer.ok
    /\ listAnswer.doc.kind = "array"
    /\ Len(listAnswer.doc.items) > 0

\* The listing answered with no pull request at all.
ListedNone ==
    /\ listAnswer.ok
    /\ listAnswer.doc.kind \in {"array", "null"}
    /\ listAnswer.doc.items = <<>>

\* The listing step failed: the collaborator did, or its output is no JSON.
ListingFailed ==
    pc # "list" /\ (~listAnswer.ok \/ listAnswer.doc.kind = "malformed")

\* The user accepted an option of the menu.
Confirmed == userChoice >= 1

Cancelled == userChoice = 0

\* C1: once the user has confirmed a selection under --view (with or without
\* --web), no checkout is ever invoked; when the run is over exactly one
\* action was invoked, browser-open for the selected record, and the exit
\* status is that call's outcome.
C1_ViewOpensBrowserOnly ==
    (Confirmed /\ f.view) =>
        /\ \A k \in 1..Len(calls) : ~IsCheckout(calls[k])
        /\ Done =>
             /\ Len(ActionCalls) = 1
             /\ IsBrowse(ActionCalls[1])
             /\ ActionCalls[1].number = Itoa(selected.Number)
             /\ exitCode = IF ActionCalls[1].ok THEN 0 ELSE 1

\* C1 witness: a finished --view --web run that opened the browser.
C1_Witness ==
    /\ Done /\ Confirmed /\ f.view /\ f.web
    /\ Len(ActionCalls) = 1 /\ IsBrowse(ActionCalls[1])

\* C2: without --view and with --web, every browser-open invocation comes
\* after a checkout invocation that succeeded; a failed checkout ends the run
\* with a non-zero status and no browser-open.
C2_BrowseOnlyAfterCheckout ==
    (~f.view /\ f.web) =>
        /\ \A k \in 1..Len(calls) :
             IsBrowse(calls[k]) =>
               \E j \in 1..(k - 1) : IsCheckout(calls[j]) /\ calls[j].ok
        /\ (\E j \in 1..Len(calls) : IsCheckout(calls[j]) /\ ~calls[j].ok) =>
             /\ \A k \in 1..Len(calls) : ~IsBrowse(calls[k])
             /\ Done
             /\ exitCode # 0

\* C2 witness: a --web run whose checkout failed.
C2_Witness ==
    /\ ~f.view /\ f.web /\ Done
    /\ \E j \in 1..Len(calls) : IsCheckout(calls[j]) /\ ~calls[j].ok

RepoName == <<"o", "/", "r">>

\* C3: when the listing succeeds with zero pull requests, whatever the flags,
\* nothing is laid out, selected, checked out or opened; the run ends with
\* status 0 having written only the no-open-pull-requests line, which names
\* the repository exactly when the repository name was resolved.
C3_EmptyListing ==
    ListedNone =>
        /\ pc \in {"listed", "done"}
        /\ options = <<>> /\ header = <<>> /\ userChoice = -1
        /\ selected = ZeroPR
        /\ ActionCalls = <<>>
        /\ Done =>
             /\ exitCode = 0
             /\ stderrLog = <<>>
             /\ Len(calls) = 2
             /\ calls[2].args = <<"repo", "view">>
             /\ stdoutLog =
                  << IF calls[2].ok
                       THEN <<"no open pull requests in ">> \o RepoName \o <<"\n">>
                       ELSE <<"no open pull requests", "\n">> >>

\* C3 witness: a finished run over an empty listing that named the repository.
C3_Witness == ListedNone /\ Done /\ calls[2].ok /\ f.view /\ f.web

\* C4: a finished run has status 0 exactly when it ended in the
\* no-open-pull-requests outcome or the listing, the selection and every
\* action invoked succeeded, and a non-zero status exactly when the listing
\* failed, the selection was cancelled, the checkout failed or the
\* browser-open failed.
C4_ExitStatus ==
    Done =>
        /\ exitCode \in {0, 1}
        /\ exitCode = 0 <=>
             \/ ListedNone
             \/ /\ ListedSome
                /\ Confirmed
                /\ \A k \in 1..Len(ActionCalls) : ActionCalls[k].ok
        /\ exitCode # 0 <=>
             \/ ListingFailed
             \/ Cancelled
             \/ \E k \in 1..Len(calls) : IsCheckout(calls[k]) /\ ~calls[k].ok
             \/ \E k \in 1..Len(calls) : IsBrowse(calls[k]) /\ ~calls[k].ok

\* C4 witness: a run that checked out, opened the browser and exited 0.
C4_Witness == Done /\ exitCode = 0 /\ Len(ActionCalls) = 2

\* Some line written to either stream contains the given part.
Reported(part) ==
    \E k \in 1..Len(stdoutLog \o stderrLog) :
        \E j \in 1..Len((stdoutLog \o stderrLog)[k]) :
            (stdoutLog \o stderrLog)[k][j] = part

\* C5: a run whose listing call succeeded with output that is no JSON ends
\* with a non-zero status having reported the parse-failure message.
C5_ParseFailureReported ==
    (Done /\ listAnswer.ok /\ listAnswer.doc.kind = "malformed") =>
        /\ exitCode # 0
        /\ Reported("failed to parse PR list: ")

\* C6: when the user aborts the menu, selectPR returns an error, no checkout
\* or browser-open is ever invoked, and the run ends with a non-zero status
\* having written the "selection cancelled" error line.
C6_Cancellation ==
    Cancelled =>
        /\ selErr # NoErr
        /\ ActionCalls = <<>>
        /\ pc \in {"dispatch", "done"}
        /\ Done =>
             /\ exitCode # 0
             /\ stderrLog =
                  << <<"Error: ", "selection cancelled: ", "user aborted", "\n">> >>

\* C6 witness: a finished run whose menu was aborted.
C6_Witness == Cancelled /\ Done /\ Len(prs) = 2

\* selectPR has just finished computing the widths (of a non-empty list); no
\* later step assigns them.
LayoutDone == pc = "options" /\ i = 1

SetMax(S) == CHOOSE m \in S : \A x \in S : x <= m

\* Titles to widen a record's title to.
WideningTitles ==
    { Rep("a", n) : n \in {6, 99, 100, 151} } \cup { Rep("U+65E5", 51) }

\* C7: for a non-empty list the computed widths are id = max(2, widest
\* "#<number>"), title = min(100, max(5, widest title)), branch = min(30,
\* max(6, widest branch)) and created = max(10, widest "about <relative
\* time>" as read in the pass); and replacing one title by one wider than the
\* title column makes the title column that width, capped at 100.
C7_ColumnWidths ==
    LayoutDone =>
        /\ widths.id =
             SetMax({2} \cup { StringWidth(IDString(prs[k].Number)) : k \in 1..Len(prs) })
        /\ widths.title =
             Min(100, SetMax({5} \cup { StringWidth(prs[k].Title) : k \in 1..Len(prs) }))
        /\ widths.branch =
             Min(30, SetMax({6} \cup { StringWidth(prs[k].HeadRefName) : k \in 1..Len(prs) }))
        /\ \E ts \in [1..Len(prs) -> 0..now] :
             widths.created =
               SetMax({10} \cup { StringWidth(CreatedString(prs[k].CreatedAt, ts[k])) :
                                    k \in 1..Len(prs) })
        /\ \A k \in 1..Len(prs) : \A t \in WideningTitles :
             StringWidth(t) > widths.title =>
               ColumnWidths([prs EXCEPT ![k].Title = t], now).title =
                 Min(100, widths.title + (StringWidth(t) - widths.title))

\* C7 witness: a layout with the title and branch columns at their ceilings
\* and the id and created columns above their floors.
C7_Witness ==
    /\ LayoutDone
    /\ widths.title = 100 /\ widths.branch = 30
    /\ widths.id > 2 /\ widths.created > 10
    /\ \E k \in 1..Len(prs) : StringWidth(prs[k].Title) > 100

NarrowOnly(text) == \A k \in 1..Len(text) : RuneWidth(text[k]) = 1

\* C8: a title of width-1 runes wider than the title column w is rendered as
\* its first w - 1 runes followed by the ellipsis (and so is a branch under
\* the branch column).
C8_TruncatedField ==
    \A k \in 1..Len(options) :
        /\ (NarrowOnly(prs[k].Title) /\ StringWidth(prs[k].Title) > widths.title) =>
             options[k].label[3].text =
               SubSeq(prs[k].Title, 1, widths.title - 1) \o <<Ellipsis>>
        /\ (NarrowOnly(prs[k].HeadRefName)
              /\ StringWidth(prs[k].HeadRefName) > widths.branch) =>
             options[k].label[5].text =
               SubSeq(prs[k].HeadRefName, 1, widths.branch - 1) \o <<Ellipsis>>

\* C9: no row is rendered before the width pass is over, and once the menu
\* is built every row has each of its four fields exactly as wide as its
\* column, so every row is id+title+branch+created+6 cells wide and the
\* header two more.
C9_AlignedRows ==
    /\ pc = "widths" => options = <<>>
    /\ (pc \in {"form", "dispatch", "web", "done"} /\ Len(prs) > 0) =>
         LET total == widths.id + widths.title + widths.branch + widths.created + 6
         IN /\ Len(options) = Len(prs)
            /\ \A k \in 1..Len(options) :
                 /\ StringWidth(options[k].label[1].text) = widths.id
                 /\ StringWidth(options[k].label[3].text) = widths.title
                 /\ StringWidth(options[k].label[5].text) = widths.branch
                 /\ StringWidth(options[k].label[7].text) = widths.created
                 /\ LineWidth(options[k].label) = total
            /\ LineWidth(header) = total + 2

\* C10: a checkout or browser-open is invoked only after the listing
\* succeeded with a non-empty array and the user accepted an option; each is
\* invoked at most once, checkout first; each carries the number of the
\* record the user accepted, the options being the listed records in the
\* listing's order; after a failed or empty listing or an aborted menu
\* neither is invoked.
C10_ActionCalls ==
    /\ \A k \in 1..Len(calls) :
         IsAction(calls[k]) =>
           /\ ListedSome
           /\ userChoice \in 1..Len(listAnswer.doc.items)
           /\ calls[k].number = Itoa(listAnswer.doc.items[userChoice].Number)
           /\ calls[k].number = Itoa(selected.Number)
    /\ Cardinality({ k \in 1..Len(calls) : IsCheckout(calls[k]) }) <= 1
    /\ Cardinality({ k \in 1..Len(calls) : IsBrowse(calls[k]) }) <= 1
    /\ \A k, j \in 1..Len(calls) :
         (IsCheckout(calls[k]) /\ IsBrowse(calls[j])) => k < j
    /\ (pc \in {"form", "dispatch", "web", "done"} /\ Len(prs) > 0) =>
         /\ Len(options) = Len(listAnswer.doc.items)
         /\ \A k \in 1..Len(options) : options[k].value = listAnswer.doc.items[k]
    /\ (ListingFailed \/ ListedNone \/ Cancelled) => ActionCalls = <<>>

\* C10 witness: a finished run that checked out and then opened the second
\* of two listed records, whose numbers differ.
C10_Witness ==
    /\ Done /\ userChoice = 2 /\ Len(ActionCalls) = 2
    /\ IsCheckout(ActionCalls[1]) /\ IsBrowse(ActionCalls[2])
    /\ prs[1].Number # prs[2].Number

====
